---------------------------- MODULE Spec2Model ----------------------------
(***************************************************************************)
(* A model of check_update.py: one externally scheduled pass that looks up *)
(* every configured app id in the App Store catalogue (region fallback),   *)
(* compares the fetched version with the version cache, pushes one         *)
(* notification and writes the cache file back.                            *)
(*                                                                         *)
(* Strings that the source writes in Chinese are transliterated: the       *)
(* placeholder '首次检测' is "first-detected", the values of REGION_NAMES  *)
(* are the English names of the regions.                                   *)
(***************************************************************************)
EXTENDS Naturals, Sequences, FiniteSets, TLC

(* ------------------------------ bounds --------------------------------- *)

\* number of runs of check_updates that one behaviour schedules
MaxRuns == 2
\* number of comma separated tokens in APP_IDS
MaxApps == 2
\* length of the prefix of REGIONS that the model iterates over
NumRegions == 2

(* ------------------------- constants of the code ----------------------- *)

\* lines 30 to 34 of the source give the last five regions as 'br': ...
\* pairs; the list takes their codes
REGIONS ==
  << "cn", "us", "hk", "tw", "jp", "kr", "gb", "sg", "au", "de",
     "fr", "ca", "it", "es", "ru", "br", "mx", "in", "th", "vn" >>

REGION_NAMES ==
  [r \in {REGIONS[k] : k \in 1..Len(REGIONS)} |->
     CASE r = "cn" -> "China"      [] r = "us" -> "United States"
       [] r = "hk" -> "Hong Kong"  [] r = "tw" -> "Taiwan"
       [] r = "jp" -> "Japan"      [] r = "kr" -> "Korea"
       [] r = "gb" -> "United Kingdom" [] r = "sg" -> "Singapore"
       [] r = "au" -> "Australia"  [] r = "de" -> "Germany"
       [] r = "fr" -> "France"     [] r = "ca" -> "Canada"
       [] r = "it" -> "Italy"      [] r = "es" -> "Spain"
       [] r = "ru" -> "Russia"     [] r = "br" -> "Brazil"
       [] r = "mx" -> "Mexico"     [] r = "in" -> "India"
       [] r = "th" -> "Thailand"   [] r = "vn" -> "Vietnam"]

\* the text that stands for "no cached version" in an update record
FirstDetected == "first-detected"

(* --------------------------- input domains ----------------------------- *)

AppIds == {"123", "456"}

\* the tokens of APP_IDS after split(',') and strip(): ids and empty tokens
Tokens == AppIds \cup {""}

RawAppIds == UNION {[1..n -> Tokens] : n \in 0..MaxApps}

Info(n, v, ic) == [trackName |-> n, version |-> v, artworkUrl100 |-> ic]

\* results[0] of a lookup: the same version under another name and icon, a
\* later version, and a result whose version string is empty
Infos ==
  { Info("App", "1.0", "icon1"), Info("App", "1.1", "icon1"),
    Info("App*", "1.0", "icon2"), Info("App", "", "icon1") }

NoInfo == Info("", "", "")

\* one region's answer to the lookup request: the request raised, or it
\* returned status_code and, for 200, a body with resultCount and results
Response(f, sc, rc, inf) ==
  [fault |-> f, status_code |-> sc, resultCount |-> rc, info |-> inf]

\* the request times out; the body of a 200 cannot be used (not JSON, or
\* resultCount without results); an error status with and without a body; a
\* 200 without results; a 200 with a result
Responses ==
  { Response(TRUE, 0, 0, NoInfo), Response(TRUE, 200, 1, NoInfo),
    Response(FALSE, 503, 0, NoInfo),
    Response(FALSE, 404, 1, Info("App", "1.1", "icon1")),
    Response(FALSE, 200, 0, NoInfo) }
  \cup { Response(FALSE, 200, 1, x) : x \in Infos }

RegionResponses == [1..NumRegions -> Responses]

\* the position in REGIONS of the store that publishes a listing: "App*" is
\* the listing of the second store, with its own name and icon
StoreOf(inf) == IF inf.trackName = "App*" THEN 2 ELSE 1

\* a time-out, a 503 and a 200 without results
Misses ==
  { Response(TRUE, 0, 0, NoInfo), Response(FALSE, 503, 0, NoInfo),
    Response(FALSE, 200, 0, NoInfo) }

\* what the k-th region can answer: a miss or a listing of its own store
StoreAnswers(k) ==
  Misses \cup { Response(FALSE, 200, 1, x) : x \in {y \in Infos : StoreOf(y) = k} }

\* the answers that the catalogue gives during the runs; the regions after
\* the second one do not list the apps
Catalogue ==
  { [k \in 1..NumRegions |-> IF k = 1 THEN a ELSE IF k = 2 THEN b ELSE m] :
      a \in StoreAnswers(1), b \in StoreAnswers(2), m \in Misses }

(* ------------------------------- state --------------------------------- *)

VARIABLES
  disk,             \* the file version_cache.json
  pc,               \* position of the process in check_updates
  run,              \* number of runs started; also the clock of datetime.now()
  app_ids,          \* check_updates: app_ids
  cache,            \* check_updates: cache
  is_first_run,     \* check_updates: is_first_run
  updated_apps,     \* check_updates: updated_apps
  all_current_apps, \* check_updates: all_current_apps
  i,                \* position of the for loop in app_ids
  notifications,    \* the calls of send_notification of this run, in order
  fetched,          \* per app id, what get_app_info_with_region returned in this run
  disk0,            \* the file as it was when this run started
  saved,            \* this run has finished a save_version_cache
  write_error,      \* open or json.dump of this run's save has raised
  rr_resp,          \* resolver harness: the answers of the regions
  rr_result,        \* resolver harness: what the resolver returned for them
  js_in,            \* cache file harness: the cache given to save_version_cache
  js_file,          \* cache file harness: the bytes of version_cache.json
  js_out,           \* cache file harness: what load_version_cache returned
  tg_title,         \* Telegram harness: title of send_telegram_notification
  tg_content,       \* Telegram harness: content of send_telegram_notification
  tg_text,          \* Telegram harness: the text of the payload that was posted
  prev              \* repeated run: the ids and the lookup results of the run before

vars ==
  << disk, pc, run, app_ids, cache, is_first_run, updated_apps,
     all_current_apps, i, notifications, fetched, disk0, saved, write_error,
     rr_resp, rr_result, js_in, js_file, js_out, tg_title, tg_content, tg_text,
     prev >>

rrVars == << rr_resp, rr_result >>
jsVars == << js_in, js_file, js_out >>
tgVars == << tg_title, tg_content, tg_text >>

\* the variables of the harnesses that apply single functions to their inputs
harness == << rrVars, jsVars, tgVars, prev >>

mainVars ==
  << disk, pc, run, app_ids, cache, is_first_run, updated_apps,
     all_current_apps, i, notifications, fetched, disk0, saved, write_error >>

(* --------------------------- the cache file ---------------------------- *)

EmptyCache == << >>

File(k, d) == [kind |-> k, data |-> d]

\* the kinds of File: "dict", a file that holds a JSON object; "absent", no
\* file; "unreadable", bytes that are not UTF-8 text; "malformed", text that
\* is not JSON; "nondict", JSON whose top level is a list; "truncated", the
\* empty or partly written file that an interrupted save leaves

\* the JSON text ["123"]: a list, written as the mapping of its positions
ListFile == File("nondict", [p \in {"0"} |-> "123"])

\* load_version_cache without the isinstance check: whatever JSON was read
load_version_cache_NoDictCheck(f) ==
  CASE f.kind = "absent" -> EmptyCache
    [] f.kind \in {"unreadable", "malformed", "truncated"} -> EmptyCache
    [] OTHER -> f.data

load_version_cache(f) ==
  CASE f.kind = "absent" -> EmptyCache       \* except FileNotFoundError
    [] f.kind \in {"unreadable", "malformed", "truncated"} -> EmptyCache
                                             \* except Exception
    [] f.kind = "nondict" -> EmptyCache      \* not isinstance(data, dict)
    [] f.kind = "dict" -> f.data

\* get_app_ids: the non-empty tokens, in order
get_app_ids(raw) == SelectSeq(raw, LAMBDA t : t # "")

(* --------------------------- region resolver --------------------------- *)

None ==
  [found |-> FALSE, trackName |-> "", version |-> "", artworkUrl100 |-> "",
   detected_region |-> ""]

Unqueried ==
  [found |-> FALSE, trackName |-> "?", version |-> "?", artworkUrl100 |-> "?",
   detected_region |-> "?"]

AppInfo(inf, region) ==
  [found |-> TRUE, trackName |-> inf.trackName, version |-> inf.version,
   artworkUrl100 |-> inf.artworkUrl100, detected_region |-> region]

\* the test of one region without the check of status_code
RegionMatches_AnyStatus(r) ==
  /\ ~r.fault
  /\ r.resultCount > 0

\* the body of the for loop for one region: TRUE when it returns app_info
RegionMatches(r) ==
  /\ ~r.fault
  /\ r.status_code = 200
  /\ r.resultCount > 0

RECURSIVE TryRegions(_, _)
TryRegions(resp, k) ==
  IF k > NumRegions THEN None
  ELSE IF RegionMatches(resp[k]) THEN AppInfo(resp[k].info, REGIONS[k])
  ELSE TryRegions(resp, k + 1)

get_app_info_with_region(resp) == TryRegions(resp, 1)

(* ------------------------- records and the cache ----------------------- *)

\* cache[k] = e
Put(c, k, e) == [x \in DOMAIN c \cup {k} |-> IF x = k THEN e ELSE c[x]]

\* cache.get(app_id, {}).get('version', '')
CachedVersion(c, app_id) == IF app_id \in DOMAIN c THEN c[app_id].version ELSE ""

\* the value written to cache[app_id]
CacheEntry(app_info, now) ==
  [version |-> app_info.version, app_name |-> app_info.trackName,
   region |-> app_info.detected_region, icon |-> app_info.artworkUrl100,
   updated_at |-> now]

\* app_status, the record of all_current_apps. release_notes, release_date
\* and app_url are copied from app_info into the records like app_name and
\* app_icon and only feed the text of the notification; the records of the
\* model leave them out.
AppStatus(app_id, app_info) ==
  [app_id |-> app_id, app_name |-> app_info.trackName,
   version |-> app_info.version, app_icon |-> app_info.artworkUrl100,
   region |-> REGION_NAMES[app_info.detected_region]]

\* update_info, the record of updated_apps
UpdateInfo(app_id, app_info, cached_version) ==
  [app_id |-> app_id, app_name |-> app_info.trackName,
   old_version |-> IF cached_version # "" THEN cached_version ELSE FirstDetected,
   new_version |-> app_info.version, app_icon |-> app_info.artworkUrl100,
   region |-> REGION_NAMES[app_info.detected_region]]

\* the comparison that decides whether a later run reports the app
VersionChanged(cached_version, current_version) == cached_version # current_version

\* a loop that writes the entries of a first run only
CacheAfterApp_FirstRunOnly(c, first, app_id, app_info, now) ==
  IF first THEN Put(c, app_id, CacheEntry(app_info, now)) ELSE c

\* the cache after the body of the for loop has handled a found app
CacheAfterApp(c, first, app_id, app_info, now) ==
  IF first \/ VersionChanged(CachedVersion(c, app_id), app_info.version)
  THEN Put(c, app_id, CacheEntry(app_info, now))
  ELSE c

(* ----------------------------- notification ---------------------------- *)

PushMethods == {"bark", "telegram", "email"}
Secrets == {"", "secret"}
\* the POST returned success, returned a failure, or raised
PostOutcomes == {"ok", "rejected", "raised"}

send_bark_notification(post) == post = "ok"

send_telegram_notification(post) == post = "ok"

send_notification(push_method, bark_key, bot_token, chat_id, post) ==
  IF push_method = "telegram"
  THEN IF bot_token = "" \/ chat_id = "" THEN FALSE
       ELSE send_telegram_notification(post)
  ELSE IF push_method = "bark"
  THEN IF bark_key = "" THEN FALSE ELSE send_bark_notification(post)
  ELSE FALSE

\* a report that names the first record only
Ids_FirstOnly(records) ==
  IF Len(records) = 0 THEN << >> ELSE << records[1].app_id >>

\* the apps that the content of a report names, in its order
Ids(records) == [k \in 1..Len(records) |-> records[k].app_id]

\* one call of send_notification: which title, the apps of the content in
\* order, and the result
Notification(title, records, ok) ==
  [title |-> title, apps |-> Ids(records), ok |-> ok]

(* ------------------------------- actions ------------------------------- *)

Ended == {"idle", "done", "aborted", "killed"}
Running == {"save", "writing"}

\* check_updates has not been called
NotStarted ==
  /\ pc = "idle"
  /\ run = 0
  /\ app_ids = << >>
  /\ cache = EmptyCache
  /\ is_first_run = FALSE
  /\ updated_apps = << >>
  /\ all_current_apps = << >>
  /\ i = 1
  /\ notifications = << >>
  /\ fetched = [a \in AppIds |-> Unqueried]
  /\ disk0 = disk
  /\ saved = FALSE
  /\ write_error = FALSE

MainInit ==
  /\ disk \in {File(k, EmptyCache) : k \in {"absent", "unreadable", "malformed", "dict"}}
             \cup {ListFile}
  /\ NotStarted

\* the harnesses at rest
RrIdle ==
  /\ rr_resp = [k \in 1..NumRegions |-> Response(TRUE, 0, 0, NoInfo)]
  /\ rr_result = Unqueried

JsIdle ==
  /\ js_in = << >>
  /\ js_file = << >>
  /\ js_out = [loaded |-> FALSE, data |-> << >>]

TgIdle ==
  /\ tg_title = << >>
  /\ tg_content = << >>
  /\ tg_text = << >>

NoRepeat ==
  prev = [on |-> FALSE, app_ids |-> << >>, fetched |-> [a \in AppIds |-> Unqueried]]

Init ==
  /\ MainInit
  /\ RrIdle
  /\ JsIdle
  /\ TgIdle
  /\ NoRepeat

\* a setup that goes on although APP_IDS holds no id
NoAppIds_Never(ids) == FALSE

\* if not app_ids: the run returns before it loads the cache
NoAppIds(ids) == ids = << >>

\* check_updates up to the for loop, with these tokens in APP_IDS
Setup(raw) ==
  /\ app_ids' = get_app_ids(raw)
  /\ IF NoAppIds(app_ids')
     THEN /\ pc' = "done"
          /\ cache' = EmptyCache
          /\ is_first_run' = FALSE
     ELSE /\ pc' = "loop"
          /\ cache' = load_version_cache(disk)
          /\ is_first_run' = (Cardinality(DOMAIN cache') = 0)
  /\ run' = run + 1
  /\ updated_apps' = << >>
  /\ all_current_apps' = << >>
  /\ i' = 1
  /\ notifications' = << >>
  /\ fetched' = [a \in AppIds |-> Unqueried]
  /\ disk0' = disk
  /\ saved' = FALSE
  /\ write_error' = FALSE

\* the scheduler starts a run
StartRun ==
  /\ pc \in Ended
  /\ run < MaxRuns
  /\ \E raw \in RawAppIds : Setup(raw)
  /\ UNCHANGED << disk, harness >>

\* a run that saves the cache as soon as the loop is over
AfterLoop_Save == "save"

\* where check_updates goes on after the for loop: the reports
AfterLoop == "notify"

\* a list that takes the new record at its front
Accumulate_Front(records, record) == << record >> \o records

\* all_current_apps.append(app_status), updated_apps.append(update_info)
Accumulate(records, record) == Append(records, record)

\* one iteration of the for loop. The catalogue does not change during a
\* run: a second lookup of an id returns what the first one returned.
CheckApp ==
  /\ pc = "loop"
  /\ i <= Len(app_ids)
  /\ \E resp \in Catalogue :
       LET app_id == app_ids[i]
           app_info == get_app_info_with_region(resp)
           cached_version == CachedVersion(cache, app_id)
       IN /\ fetched[app_id] \in {Unqueried, app_info}
          /\ fetched' = [fetched EXCEPT ![app_id] = app_info]
          /\ IF ~app_info.found
             THEN UNCHANGED << cache, all_current_apps, updated_apps >>
             ELSE /\ cache' = CacheAfterApp(cache, is_first_run, app_id, app_info, run)
                  /\ IF is_first_run
                     THEN /\ all_current_apps' =
                               Accumulate(all_current_apps, AppStatus(app_id, app_info))
                          /\ UNCHANGED updated_apps
                     ELSE /\ updated_apps' =
                               IF VersionChanged(cached_version, app_info.version)
                               THEN Accumulate(updated_apps,
                                               UpdateInfo(app_id, app_info, cached_version))
                               ELSE updated_apps
                          /\ UNCHANGED all_current_apps
  /\ i' = i + 1
  /\ pc' = IF i = Len(app_ids) THEN AfterLoop ELSE "loop"
  /\ UNCHANGED << disk, run, app_ids, is_first_run, notifications, disk0, saved,
                  write_error, harness >>

\* the lists of the two branches taken for one another
Records_Swapped == IF is_first_run THEN updated_apps ELSE all_current_apps

\* the records that the run reports, and the title of its notification
Records == IF is_first_run THEN all_current_apps ELSE updated_apps

Title ==
  IF is_first_run THEN "init"
  ELSE IF Len(updated_apps) = 1 THEN "single" ELSE "batch"

\* nothing to report: return before send_notification and save_version_cache
ReturnNoPush ==
  /\ pc = "notify"
  /\ Records = << >>
  /\ pc' = "done"
  /\ UNCHANGED << disk, run, app_ids, cache, is_first_run, updated_apps,
                  all_current_apps, i, notifications, fetched, disk0, saved,
                  write_error, harness >>

\* the one call of send_notification; its result is not looked at
Dispatch ==
  /\ pc = "notify"
  /\ Records # << >>
  /\ \E push_method \in PushMethods, bark_key \in Secrets, bot_token \in Secrets,
        chat_id \in Secrets, post \in PostOutcomes :
       notifications' =
         Append(notifications,
                Notification(Title, Records,
                             send_notification(push_method, bark_key, bot_token,
                                               chat_id, post)))
  /\ pc' = "save"
  /\ UNCHANGED << disk, run, app_ids, cache, is_first_run, updated_apps,
                  all_current_apps, i, fetched, disk0, saved, write_error,
                  harness >>

\* save_version_cache: open(CACHE_FILE, 'w') empties the file
SaveOpen ==
  /\ pc = "save"
  /\ disk' = File("truncated", EmptyCache)
  /\ pc' = "writing"
  /\ UNCHANGED << run, app_ids, cache, is_first_run, updated_apps,
                  all_current_apps, i, notifications, fetched, disk0, saved,
                  write_error, harness >>

\* open raises (no permission, read-only file system): nothing catches it
SaveOpenFails ==
  /\ pc = "save"
  /\ write_error' = TRUE
  /\ pc' = "aborted"
  /\ UNCHANGED << disk, run, app_ids, cache, is_first_run, updated_apps,
                  all_current_apps, i, notifications, fetched, disk0, saved,
                  harness >>

\* json.dump writes the whole cache and the file is closed
SaveDump ==
  /\ pc = "writing"
  /\ disk' = File("dict", cache)
  /\ saved' = TRUE
  /\ pc' = "done"
  /\ UNCHANGED << run, app_ids, cache, is_first_run, updated_apps,
                  all_current_apps, i, notifications, fetched, disk0,
                  write_error, harness >>

\* json.dump raises part way (disk full, I/O error): nothing catches it
SaveDumpFails ==
  /\ pc = "writing"
  /\ write_error' = TRUE
  /\ pc' = "aborted"
  /\ UNCHANGED << disk, run, app_ids, cache, is_first_run, updated_apps,
                  all_current_apps, i, notifications, fetched, disk0, saved,
                  harness >>

\* the process is killed from outside while it saves
Kill ==
  /\ pc \in Running
  /\ pc' = "killed"
  /\ UNCHANGED << disk, run, app_ids, cache, is_first_run, updated_apps,
                  all_current_apps, i, notifications, fetched, disk0, saved,
                  write_error, harness >>

Next ==
  \/ StartRun
  \/ CheckApp
  \/ ReturnNoPush
  \/ Dispatch
  \/ SaveOpen
  \/ SaveOpenFails
  \/ SaveDump
  \/ SaveDumpFails
  \/ Kill

Spec == Init /\ [][Next]_vars

(* -------------------- the resolver on its own inputs ------------------- *)

\* check_updates is not running
MainIdle ==
  /\ MainInit
  /\ disk = File("absent", EmptyCache)

ResolverInit ==
  /\ MainIdle
  /\ JsIdle
  /\ TgIdle
  /\ NoRepeat
  /\ rr_resp \in RegionResponses
  /\ rr_result = Unqueried

Resolve ==
  /\ rr_result = Unqueried
  /\ rr_result' = get_app_info_with_region(rr_resp)
  /\ UNCHANGED << mainVars, rr_resp, jsVars, tgVars, prev >>

ResolverNext == Resolve

ResolverSpec == ResolverInit /\ [][ResolverNext]_vars

(* ------------------- a run and the same run once more ------------------ *)

\* the entries that runs before the first one of a behaviour have saved
EarlierEntries ==
  { CacheEntry(AppInfo(x, REGIONS[StoreOf(x)]), 0) : x \in Infos }

\* the caches with one and with two of them
EarlierCaches ==
  { Put(EmptyCache, id, e) : id \in AppIds, e \in EarlierEntries }
  \cup { Put(Put(EmptyCache, "123", e), "456", f) :
            e \in EarlierEntries, f \in EarlierEntries }

RepeatInit ==
  /\ disk \in {File(k, EmptyCache) : k \in {"absent", "unreadable", "malformed", "dict"}}
             \cup {ListFile} \cup {File("dict", c) : c \in EarlierCaches}
  /\ NotStarted
  /\ RrIdle
  /\ JsIdle
  /\ TgIdle
  /\ NoRepeat

\* the scheduler starts the first run
FirstRun ==
  /\ run = 0
  /\ StartRun

\* after a run that has saved the cache, the scheduler starts the run again
\* with the same APP_IDS
StartRepeat ==
  /\ pc = "done"
  /\ saved
  /\ ~prev.on
  /\ Setup(app_ids)
  /\ prev' = [on |-> TRUE, app_ids |-> app_ids, fetched |-> fetched]
  /\ UNCHANGED << disk, rrVars, jsVars, tgVars >>

\* an iteration of the for loop; in the repeated run the regions answer the
\* lookup of an app as they did in the run before
RepeatCheckApp ==
  /\ CheckApp
  /\ prev.on => fetched'[app_ids[i]] = prev.fetched[app_ids[i]]

RepeatNext ==
  \/ FirstRun
  \/ StartRepeat
  \/ RepeatCheckApp
  \/ ReturnNoPush
  \/ Dispatch
  \/ SaveOpen
  \/ SaveOpenFails
  \/ SaveDump
  \/ SaveDumpFails
  \/ Kill

RepeatSpec == RepeatInit /\ [][RepeatNext]_vars

(* ---------------------- the cache file as JSON text -------------------- *)

\* length of the app names that the cache file harness saves
MaxNameLen == 2

\* A string is a sequence of characters. "n" is a letter, QUOTE is
\* the double quote, BSLASH the backslash, LF the line feed U+000A, U+0001
\* another control character, U+4E2D a Chinese letter and U+1F600 a character
\* outside of the basic plane. A word such as "version" stands for its ASCII
\* letters and digits. The bytes of a file are written the same way, "E4" to
\* "AD" and "F0" to "80" being the bytes of the two characters that UTF-8
\* writes with more than one byte.
NameChars == {"n", "QUOTE", "BSLASH", "LF", "U+0001", "U+4E2D", "U+1F600"}

ControlChars == {"LF", "U+0001"}

NonAsciiBytes == {"E4", "B8", "AD", "F0", "9F", "98", "80"}

Names == UNION {[1..n -> NameChars] : n \in 0..MaxNameLen}

\* a dict in the order of its items
Pair(key, val) == [k |-> key, v |-> val]

\* the dict that check_updates assigns to cache[app_id]
JsEntry(version, app_name) ==
  << Pair(<<"version">>, version), Pair(<<"app_name">>, app_name),
     Pair(<<"region">>, <<"cn">>), Pair(<<"icon">>, <<"icon1">>),
     Pair(<<"updated_at">>, <<"2026-01-01T00:00:00">>) >>

\* the caches of the harness: none, one and two entries, the second one with
\* an empty version
CacheDicts ==
  { << >> }
  \cup { << Pair(<<"123">>, JsEntry(<<"1.0">>, s)) >> : s \in Names }
  \cup { << Pair(<<"123">>, JsEntry(<<"1.0">>, s)), Pair(<<"456">>, JsEntry(<< >>, t)) >> :
           s \in Names, t \in {<<"U+4E2D", "U+1F600">>, <<"BSLASH", "n">>} }

\* an encoder that writes every character as it is
EscapeChar_Raw(c) == << c >>

\* json.encoder, ensure_ascii=False: the characters that a JSON string
\* cannot hold as they are
EscapeChar(c) ==
  CASE c = "QUOTE" -> << "BSLASH", "QUOTE" >>
    [] c = "BSLASH" -> << "BSLASH", "BSLASH" >>
    [] c = "LF" -> << "BSLASH", "n" >>
    [] c = "U+0001" -> << "BSLASH", "u", "0", "0", "0", "1" >>
    [] OTHER -> << c >>

RECURSIVE EscapeAll(_)
EscapeAll(s) == IF s = << >> THEN << >> ELSE EscapeChar(Head(s)) \o EscapeAll(Tail(s))

JsonString(s) == << "QUOTE" >> \o EscapeAll(s) \o << "QUOTE" >>

\* indent=2: a line feed and the indentation of the level
NewlineIndent(level) == << "LF" >> \o [k \in 1..(2 * level) |-> "SP"]

\* json.dump of a dict whose values are strings (depth 1) or dicts of strings
\* (depth 2), nested under level dicts
RECURSIVE JsonObject(_, _, _), JsonMembers(_, _, _, _)
JsonObject(o, level, depth) ==
  IF Len(o) = 0 THEN << "{", "}" >>
  ELSE << "{" >> \o JsonMembers(o, 1, level + 1, depth)
                 \o NewlineIndent(level) \o << "}" >>

JsonMembers(o, j, level, depth) ==
  IF j > Len(o) THEN << >>
  ELSE (IF j > 1 THEN << "," >> ELSE << >>)
       \o NewlineIndent(level) \o JsonString(o[j].k) \o << ":", "SP" >>
       \o (IF depth = 1 THEN JsonString(o[j].v) ELSE JsonObject(o[j].v, level, depth - 1))
       \o JsonMembers(o, j + 1, level, depth)

json_dump(obj) == JsonObject(obj, 0, 2)

\* the file object of open(..., encoding='utf-8')
Utf8Char(c) ==
  CASE c = "U+4E2D" -> << "E4", "B8", "AD" >>
    [] c = "U+1F600" -> << "F0", "9F", "98", "80" >>
    [] OTHER -> << c >>

\* the bytes of a text: those of its first half, then those of its second half
RECURSIVE Utf8Encode(_)
Utf8Encode(s) ==
  IF Len(s) = 0 THEN << >>
  ELSE IF Len(s) = 1 THEN Utf8Char(s[1])
  ELSE LET h == Len(s) \div 2
       IN Utf8Encode(SubSeq(s, 1, h)) \o Utf8Encode(SubSeq(s, h + 1, Len(s)))

\* the bytes of version_cache.json after save_version_cache(cache)
WriteJson(obj) == Utf8Encode(json_dump(obj))

\* what a step of reading returns: whether it went well, the position after
\* it and what was read
Read(ok, pos, val) == [ok |-> ok, pos |-> pos, val |-> val]

ReadFails == Read(FALSE, 0, << >>)

\* the bytes 10xxxxxx, which go on with a character
ContinuationBytes == {"B8", "AD", "9F", "98", "80"}

\* the number of bytes that the character with this first byte takes
Utf8Width(byte) == IF byte = "E4" THEN 3 ELSE IF byte = "F0" THEN 4 ELSE 1

\* the character that the bytes from p on are, "" when they are none
Utf8CharAt(b, p) ==
  LET w == Utf8Width(b[p])
      bytes == IF p + w - 1 <= Len(b) THEN SubSeq(b, p, p + w - 1) ELSE << >>
  IN IF bytes = << "E4", "B8", "AD" >> THEN "U+4E2D"
     ELSE IF bytes = << "F0", "9F", "98", "80" >> THEN "U+1F600"
     ELSE IF w = 1 /\ Len(bytes) = 1 THEN bytes[1]
     ELSE ""

\* the text of the bytes, or UnicodeDecodeError: every byte that does not go
\* on with a character begins one, and the characters take all the bytes
Utf8Decode(b) ==
  LET starts == SelectSeq([p \in 1..Len(b) |-> p],
                          LAMBDA p : b[p] \notin ContinuationBytes)
      text == [j \in 1..Len(starts) |-> Utf8CharAt(b, starts[j])]
      next(j) == IF j = Len(starts) THEN Len(b) + 1 ELSE starts[j + 1]
  IN IF /\ (Len(b) > 0 => Len(starts) > 0 /\ starts[1] = 1)
        /\ \A j \in 1..Len(starts) :
             text[j] # "" /\ next(j) = starts[j] + Utf8Width(b[starts[j]])
     THEN Read(TRUE, Len(b) + 1, text)
     ELSE ReadFails

\* json.decoder: the position after the white space from p on
RECURSIVE SkipSpace(_, _)
SkipSpace(t, p) ==
  IF p <= Len(t) /\ t[p] \in {"SP", "LF"} THEN SkipSpace(t, p + 1) ELSE p

\* the string whose opening quote is before p
RECURSIVE ParseStringBody(_, _, _)
ParseStringBody(t, p, acc) ==
  IF p > Len(t) THEN ReadFails
  ELSE IF t[p] = "QUOTE" THEN Read(TRUE, p + 1, acc)
  ELSE IF t[p] = "BSLASH"
  THEN IF p + 1 > Len(t) THEN ReadFails
       ELSE IF t[p + 1] \in {"QUOTE", "BSLASH"}
       THEN ParseStringBody(t, p + 2, Append(acc, t[p + 1]))
       ELSE IF t[p + 1] = "n" THEN ParseStringBody(t, p + 2, Append(acc, "LF"))
       ELSE IF /\ t[p + 1] = "u" /\ p + 5 <= Len(t)
               /\ SubSeq(t, p + 2, p + 5) = << "0", "0", "0", "1" >>
       THEN ParseStringBody(t, p + 6, Append(acc, "U+0001"))
       ELSE ReadFails
  ELSE IF t[p] \in ControlChars THEN ReadFails
  ELSE ParseStringBody(t, p + 1, Append(acc, t[p]))

ParseString(t, p) ==
  IF p <= Len(t) /\ t[p] = "QUOTE" THEN ParseStringBody(t, p + 1, << >>)
  ELSE ReadFails

\* an object whose values are strings (depth 1) or objects of strings
RECURSIVE ParseObject(_, _, _), ParseMembers(_, _, _, _)
ParseObject(t, p, depth) ==
  IF p <= Len(t) /\ t[p] = "{"
  THEN LET q == SkipSpace(t, p + 1)
       IN IF q <= Len(t) /\ t[q] = "}" THEN Read(TRUE, q + 1, << >>)
          ELSE ParseMembers(t, q, depth, << >>)
  ELSE ReadFails

ParseMembers(t, p, depth, acc) ==
  LET key == ParseString(t, p)
      q == SkipSpace(t, key.pos)
      val == IF depth = 1 THEN ParseString(t, SkipSpace(t, q + 1))
             ELSE ParseObject(t, SkipSpace(t, q + 1), depth - 1)
      r == SkipSpace(t, val.pos)
      members == Append(acc, Pair(key.val, val.val))
  IN IF ~key.ok \/ q > Len(t) THEN ReadFails
     ELSE IF t[q] # ":" \/ ~val.ok \/ r > Len(t) THEN ReadFails
     ELSE IF t[r] = "," THEN ParseMembers(t, SkipSpace(t, r + 1), depth, members)
     ELSE IF t[r] = "}" THEN Read(TRUE, r + 1, members)
     ELSE ReadFails

\* json.load of the file: the items of the cache in the order of the text
json_load(b) ==
  LET text == Utf8Decode(b)
      obj == ParseObject(text.val, SkipSpace(text.val, 1), 2)
  IN IF ~text.ok THEN ReadFails
     ELSE IF obj.ok /\ SkipSpace(text.val, obj.pos) > Len(text.val) THEN obj
     ELSE ReadFails

\* the Python dict of a sequence of items: the last item of a key counts
Keys(o) == {o[j].k : j \in 1..Len(o)}

ValueOf(o, key) ==
  o[CHOOSE j \in 1..Len(o) :
      o[j].k = key /\ \A m \in (j + 1)..Len(o) : o[m].k # key].v

Dict1(o) == [key \in Keys(o) |-> ValueOf(o, key)]

Dict2(o) == [key \in Keys(o) |-> Dict1(ValueOf(o, key))]

\* load_version_cache of a file with these bytes
ReadJson(b) ==
  LET data == json_load(b)
  IN IF data.ok THEN Dict2(data.val) ELSE Dict2(<< >>)

CacheFileInit ==
  /\ MainIdle
  /\ RrIdle
  /\ TgIdle
  /\ NoRepeat
  /\ js_in \in CacheDicts
  /\ js_file = << >>
  /\ js_out = [loaded |-> FALSE, data |-> << >>]

\* save_version_cache(cache)
SaveCache ==
  /\ js_file = << >>
  /\ js_file' = WriteJson(js_in)
  /\ UNCHANGED << mainVars, rrVars, tgVars, prev, js_in, js_out >>

\* load_version_cache()
LoadCache ==
  /\ js_file # << >>
  /\ ~js_out.loaded
  /\ js_out' = [loaded |-> TRUE, data |-> ReadJson(js_file)]
  /\ UNCHANGED << mainVars, rrVars, tgVars, prev, js_in, js_file >>

CacheFileNext == SaveCache \/ LoadCache

CacheFileSpec == CacheFileInit /\ [][CacheFileNext]_vars

(* ------------------------ the Telegram message ------------------------- *)

\* the characters of the titles and contents that the Telegram harness
\* sends: a word without markup, and three characters that are markup
MessageChars == {"App", "_", ".", "!"}

Texts == UNION {[1..n -> MessageChars] : n \in 0..MaxNameLen}

\* message = f"*{title}*\n\n{content}", the text of the payload
TelegramMessage(title, content) ==
  << "*" >> \o title \o << "*", "LF", "LF" >> \o content

TelegramInit ==
  /\ MainIdle
  /\ RrIdle
  /\ JsIdle
  /\ NoRepeat
  /\ tg_title \in Texts
  /\ tg_content \in Texts
  /\ tg_text = << >>

\* send_telegram_notification(bot_token, chat_id, title, content) posts
PostMessage ==
  /\ tg_text = << >>
  /\ tg_text' = TelegramMessage(tg_title, tg_content)
  /\ UNCHANGED << mainVars, rrVars, jsVars, prev, tg_title, tg_content >>

TelegramNext == PostMessage

TelegramSpec == TelegramInit /\ [][TelegramNext]_vars

(* ------------------------ notions of the claims ------------------------ *)

\* the cache that this run loaded
Loaded == load_version_cache(disk0)

\* how often an app id is in a sequence of ids, and in a sequence of records
Occurrences(ids, id) == Cardinality({k \in 1..Len(ids) : ids[k] = id})
RecordsOf(records, id) == Cardinality({k \in 1..Len(records) : records[k].app_id = id})

\* the for loop of a run with configured app ids is over
LoopDone == pc \in {"notify", "save", "writing", "done", "aborted", "killed"} /\ app_ids # << >>

\* the process has ended by itself: it returned or an exception left check_updates
EndedByItself == pc \in {"done", "aborted"} /\ app_ids # << >>

(* ------------------------------- claims -------------------------------- *)

\* C1: an app id that is configured (once), absent from the loaded cache and
\* found by the lookup gets exactly one new-app record, which has no
\* old_version (the records of all_current_apps), no updated-app record, and
\* an entry in the cache of the run.
C1_NewAppRecord ==
  LoopDone =>
    \A id \in AppIds :
      (Occurrences(app_ids, id) = 1 /\ id \notin DOMAIN Loaded /\ fetched[id].found)
        => /\ RecordsOf(all_current_apps, id) = 1
           /\ RecordsOf(updated_apps, id) = 0
           /\ id \in DOMAIN cache

\* C2: an app id that is in the loaded cache with a version string other than
\* the fetched one gets exactly one updated-app record, with the cached
\* version string as old_version and the fetched one as new_version, and the
\* version of its cache entry becomes the fetched one.
C2_UpdatedRecord ==
  LoopDone =>
    \A id \in AppIds :
      (/\ Occurrences(app_ids, id) > 0 /\ fetched[id].found
       /\ id \in DOMAIN Loaded /\ Loaded[id].version # fetched[id].version)
        => /\ RecordsOf(updated_apps, id) = 1
           /\ \A k \in 1..Len(updated_apps) :
                updated_apps[k].app_id = id
                  => /\ updated_apps[k].old_version = Loaded[id].version
                     /\ updated_apps[k].new_version = fetched[id].version
           /\ cache[id].version = fetched[id].version

\* C3: whatever the classification, the cache entry of an app id whose lookup
\* succeeded holds the version, name, icon and region observed in this run
\* once the loop is over; with an unchanged version no record is emitted.
\* (The claim also names the time of the entry; the formula does without it.)
C3_EntryRefreshed ==
  LoopDone =>
    \A id \in AppIds :
      fetched[id].found
        => /\ id \in DOMAIN cache
           /\ cache[id].version = fetched[id].version
           /\ cache[id].app_name = fetched[id].trackName
           /\ cache[id].icon = fetched[id].artworkUrl100
           /\ cache[id].region = fetched[id].detected_region
           /\ (id \in DOMAIN Loaded /\ Loaded[id].version = fetched[id].version)
                => RecordsOf(updated_apps, id) + RecordsOf(all_current_apps, id) = 0

\* C4: when the lookup of a cached app id fails in every region, the run has
\* no record for it, its entry is the loaded one in memory and in the file
\* when the process ends, and the process ends by returning, with the entries
\* of the other ids in the file.
C4_FailedLookupKeepsEntry ==
  EndedByItself =>
    \A id \in AppIds :
      (Occurrences(app_ids, id) > 0 /\ fetched[id] = None /\ id \in DOMAIN Loaded)
        => /\ RecordsOf(updated_apps, id) + RecordsOf(all_current_apps, id) = 0
           /\ cache[id] = Loaded[id]
           /\ pc = "done"
           /\ disk.kind = "dict"
           /\ disk.data = cache

\* C5: no run removes a key of the cache: however the process ends, the file
\* still has an entry for every app id that the run loaded, and so for every
\* id that an earlier run saved.
C5_KeysPersist ==
  EndedByItself => DOMAIN Loaded \subseteq DOMAIN load_version_cache(disk)

\* C6: the resolver returns the result of the first region, in the order of
\* REGIONS, that answers 200 with a positive result count, tagged with the
\* code of that region, and None exactly when no region answers so; a region
\* that answers with another status or whose request fails is passed over.
C6_FirstPositiveRegion ==
  rr_result # Unqueried =>
    LET hits == {k \in 1..NumRegions :
                   /\ ~rr_resp[k].fault
                   /\ rr_resp[k].status_code = 200
                   /\ rr_resp[k].resultCount > 0}
    IN IF hits = {}
       THEN rr_result = None
       ELSE LET first == CHOOSE k \in hits : \A j \in hits : k <= j
            IN /\ rr_result.found
               /\ rr_result.detected_region = REGIONS[first]
               /\ rr_result.trackName = rr_resp[first].info.trackName
               /\ rr_result.version = rr_resp[first].info.version
               /\ rr_result.artworkUrl100 = rr_resp[first].info.artworkUrl100

\* C6, witness: the request of the first region raised and the resolver has
\* returned the listing of the second region
C6_Witness ==
  /\ rr_result.found
  /\ rr_resp[1].fault
  /\ rr_result.detected_region = REGIONS[2]

\* C7: after the process was killed during save_version_cache, a load returns
\* the whole previous snapshot or the whole new one.
C7_SaveCrashAtomic ==
  pc = "killed" => load_version_cache(disk) \in {Loaded, cache}

\* C8: a run with configured app ids that returns has been through the save
\* of the cache, whatever lookups and notifications failed.
C8_ReachesSave ==
  (pc = "done" /\ app_ids # << >>) => saved

\* C9: when the write of the cache fails, the process does not end with the
\* exception, the notification of the run has been dispatched, and the file
\* is what it was before the write.
C9_WriteFailureHandled ==
  write_error =>
    /\ pc # "aborted"
    /\ notifications # << >>
    /\ disk = disk0

\* C10: a cache file that is absent, unreadable, malformed or not a mapping
\* is loaded as the empty mapping without an exception: the run goes on as a
\* first run, and every app id whose lookup succeeds is recorded as new, once
\* per occurrence, and never as updated.
C10_BadCacheIsFirstRun ==
  (pc # "idle" /\ app_ids # << >> /\ disk0.kind # "dict")
    => /\ is_first_run
       /\ pc \in {"loop", "notify", "save", "writing", "done", "aborted", "killed"}
       /\ updated_apps = << >>
       /\ \A id \in DOMAIN cache : RecordsOf(all_current_apps, id) > 0
       /\ LoopDone =>
            \A id \in AppIds :
              fetched[id].found
                => RecordsOf(all_current_apps, id) = Occurrences(app_ids, id)

\* C10, witness: a run that found a list in the cache file has returned
\* after it reported an app as new
C10_Witness ==
  /\ pc = "done"
  /\ disk0 = ListFile
  /\ all_current_apps # << >>
  /\ saved

\* C11: a run whose APP_IDS holds no id returns at once: it has looked up no
\* app, called send_notification not once, loaded and written no cache, and
\* the cache file is the one the run found.
C11_NoIdsNoEffect ==
  (run > 0 /\ app_ids = << >>)
    => /\ pc = "done"
       /\ \A id \in AppIds : fetched[id] = Unqueried
       /\ notifications = << >>
       /\ cache = EmptyCache
       /\ ~saved /\ ~write_error
       /\ disk = disk0

\* a run without ids that follows a run which saved a cache with entries
C11_Witness ==
  /\ run > 1 /\ app_ids = << >> /\ pc = "done"
  /\ DOMAIN load_version_cache(disk) # {}

\* the kind of a notification: the report of a first run lists the new-app
\* records, the single and the batch report list the updated-app records
KindOfTitle(title) == IF title = "init" THEN "new" ELSE "updated"

RecordsOfKind(kind) == IF kind = "new" THEN all_current_apps ELSE updated_apps

\* send_notification has been called, or the run has returned without a call
PastDispatch == pc \in {"save", "writing", "done", "aborted", "killed"} /\ app_ids # << >>

\* C12: send_notification is called for a kind of record (new apps, updated
\* apps) only when the run has accumulated a record of that kind, and once
\* the run is past the dispatch it has been called for every kind of which
\* there is a record.
C12_NotifiedIffRecords ==
  /\ \A k \in 1..Len(notifications) :
       /\ RecordsOfKind(KindOfTitle(notifications[k].title)) # << >>
       /\ notifications[k].apps # << >>
  /\ PastDispatch =>
       \A kind \in {"new", "updated"} :
         RecordsOfKind(kind) # << >> =>
           \E k \in 1..Len(notifications) : KindOfTitle(notifications[k].title) = kind

\* a later run that has reported its updated-app records
C12_Witness ==
  /\ pc = "done" /\ ~is_first_run /\ updated_apps # << >>
  /\ notifications # << >>

\* C13: the cache that load_version_cache returns from the file that
\* save_version_cache wrote is the saved cache: the same app ids, and for
\* each id the same fields with the same strings, whatever characters the
\* app name holds.
C13_SaveLoadRoundTrip ==
  js_out.loaded => js_out.data = Dict2(js_in)

\* two entries were saved and loaded; the name of the first one holds a
\* Chinese letter and a double quote
C13_Witness ==
  /\ js_out.loaded
  /\ Len(js_in) = 2
  /\ js_in[1].v[2].v = << "U+4E2D", "QUOTE" >>
  /\ DOMAIN js_out.data = {<<"123">>, <<"456">>}

\* the settings of the region try-limit: unset, which stands for 6, and the
\* numbers from 0 to one more than the regions of the list
TryLimitSettings == {6} \cup (0..(NumRegions + 1))

\* the limit of a setting, clamped to [1, number of regions]
ClampTryLimit(l) == IF l < 1 THEN 1 ELSE IF l > NumRegions THEN NumRegions ELSE l

\* the positions of the list at which the region answers with a result
MatchPositions ==
  {k \in 1..NumRegions : RegionMatches(rr_resp[k])}

\* C14: whatever the try-limit is set to, a call of the resolver returns a
\* result only from one of the first L regions of the list, L being the
\* clamped limit: when the regions that match are all beyond position L the
\* call returns not-found.
C14_TryLimit ==
  rr_result # Unqueried =>
    \A l \in TryLimitSettings :
      (\A k \in MatchPositions : k > ClampTryLimit(l)) => rr_result = None

\* the characters that are markup in a Telegram message
EscapeSet ==
  {"_", "*", "[", "]", "(", ")", "~", "BACKTICK", ">", "#", "+", "-", "=", "|",
   "{", "}", ".", "!"}

\* a text with a backslash before each of its characters of the escape set
RECURSIVE EscapeMarkdown(_)
EscapeMarkdown(s) ==
  IF s = << >> THEN << >>
  ELSE (IF Head(s) \in EscapeSet THEN << "BSLASH", Head(s) >> ELSE << Head(s) >>)
       \o EscapeMarkdown(Tail(s))

\* C15: the text that send_telegram_notification posts is composed of the
\* escaped title and the escaped content: each of their characters of the
\* escape set has one backslash before it, and an empty title or content
\* stays empty.
C15_MarkupEscaped ==
  tg_text # << >> =>
    tg_text = TelegramMessage(EscapeMarkdown(tg_title), EscapeMarkdown(tg_content))

\* s holds elements of t in the order in which t holds them
RECURSIVE IsSubsequence(_, _)
IsSubsequence(s, t) ==
  IF s = << >> THEN TRUE
  ELSE IF t = << >> THEN FALSE
  ELSE IF Head(s) = Head(t) THEN IsSubsequence(Tail(s), Tail(t))
  ELSE IsSubsequence(s, Tail(t))

\* the ids of APP_IDS that the for loop has handled
Handled == SubSeq(app_ids, 1, i - 1)

\* C16: at every point of a run the app ids of all_current_apps and of
\* updated_apps follow one another as the ids that the loop has handled
\* follow one another in APP_IDS, and the notification lists the apps in
\* the order of the records.
C16_RecordsInListOrder ==
  /\ IsSubsequence([k \in 1..Len(all_current_apps) |-> all_current_apps[k].app_id], Handled)
  /\ IsSubsequence([k \in 1..Len(updated_apps) |-> updated_apps[k].app_id], Handled)
  /\ \A n \in 1..Len(notifications) :
       notifications[n].apps = [k \in 1..Len(Records) |-> Records[k].app_id]

\* a batch report of two updated apps, which APP_IDS lists as 456,123
C16_Witness ==
  /\ app_ids = << "456", "123" >>
  /\ Len(updated_apps) = 2
  /\ Len(notifications) = 1 /\ notifications[1].title = "batch"
  /\ notifications[1].apps = << "456", "123" >>

\* the apps that the calls of send_notification of this run have reported
Reported ==
  UNION {{notifications[n].apps[k] : k \in 1..Len(notifications[n].apps)} :
           n \in 1..Len(notifications)}

\* C17: a run writes the cache file only after it has called
\* send_notification: the file differs from the one that the run found, and
\* holds for an app id an entry that the run did not find or a version other
\* than the one the run found, only if a call has reported that id. A run
\* that is killed after the call and before the file is opened leaves the
\* file that it found, with which the next run finds the same changes.
\* (The entries that an interrupted write removes from the file are C7's
\* matter: the formula looks at the entries that the file holds.)
C17_SaveAfterDispatch ==
  /\ disk # disk0 => notifications # << >>
  /\ \A id \in DOMAIN load_version_cache(disk) :
       (id \notin DOMAIN Loaded \/ load_version_cache(disk)[id].version # Loaded[id].version)
         => id \in Reported
  /\ (pc = "killed" /\ disk.kind # "truncated") => disk = disk0

\* a later run has reported a changed version and saved it
C17_Witness ==
  /\ saved /\ ~is_first_run
  /\ \E id \in DOMAIN Loaded :
       /\ id \in DOMAIN load_version_cache(disk)
       /\ load_version_cache(disk)[id].version # Loaded[id].version
       /\ id \in Reported

\* C18: a run that follows a run which has saved the cache, with the same
\* APP_IDS and the same answers of the regions, has no record in
\* all_current_apps nor in updated_apps, calls send_notification not once
\* and leaves the cache file as it is.
C18_RepeatIsSilent ==
  prev.on =>
    /\ all_current_apps = << >>
    /\ updated_apps = << >>
    /\ notifications = << >>
    /\ pc \in {"loop", "notify", "done"}
    /\ disk = disk0

\* the repeated run has returned; the cache holds an entry that the run
\* before has written and an entry of an earlier run, and both apps were
\* found again
C18_Witness ==
  /\ prev.on /\ pc = "done"
  /\ \E a \in DOMAIN cache, b \in DOMAIN cache :
       /\ cache[a].updated_at = 1 /\ fetched[a].found
       /\ cache[b].updated_at = 0 /\ fetched[b].found

\* C19: whatever APP_IDS lists, and however often it lists an id, a run has
\* at most one record for an app id in all_current_apps and updated_apps
\* together.
C19_OneRecordPerId ==
  \A id \in AppIds :
    RecordsOf(all_current_apps, id) + RecordsOf(updated_apps, id) <= 1

====
